---- MODULE Spec2Model ----
(***************************************************************************)
(* SignatureCanvas (src/src/index.js): the stroke controller that turns    *)
(* mouse and touch events into variable-width Bezier ink on a 2D canvas.   *)
(*                                                                         *)
(* JavaScript numbers are modelled as exact rationals plus NaN.  Sample    *)
(* coordinates are drawn from a set of points whose pairwise distances are *)
(* integers, so that every Math.sqrt the program takes is exact.           *)
(***************************************************************************)
EXTENDS Integers, Sequences, FiniteSets, TLC

\* ------------------------------------------------------------------ bounds
\* Samples fed to the sliding window (calls of _strokeUpdate) in one run
\* of mouse and touch events, and in one run of mouse events alone.
MaxSamples == 3

MaxStrokeSamples == 4
\* The clock (Date.now() in milliseconds) runs from 0 to MaxTime, and to
\* MaxStrokeTime in a run of mouse events alone.
MaxTime == 1

MaxStrokeTime == 2
\* Fingers that may rest on the canvas at the same time.
MaxTouches == 2
\* The largest coordinate of the first of three samples given to the solver.
MaxCoordinate == 1

\* ----------------------------------------------------------------- numbers
\* A number is [n |-> numerator, d |-> denominator > 0] in lowest terms;
\* NaN is the result of 0/0 and is written 0/0.
Abs(i) == IF i < 0 THEN -i ELSE i

RECURSIVE GCD(_, _)
GCD(a, b) == IF b = 0 THEN a ELSE GCD(b, a % b)

NaN == [n |-> 0, d |-> 0]

IsNaN(a) == a.d = 0

Num(n, d) ==
  LET g == GCD(Abs(n), Abs(d))
      s == IF d < 0 THEN -1 ELSE 1
  IN  [n |-> s * (n \div g), d |-> s * (d \div g)]

Whole(i) == [n |-> i, d |-> 1]

\* The sums and products cancel common factors before they multiply.
Plus(a, b) ==
  IF IsNaN(a) \/ IsNaN(b) THEN NaN
  ELSE LET g == GCD(a.d, b.d)
       IN  Num(a.n * (b.d \div g) + b.n * (a.d \div g), (a.d \div g) * b.d)

Negative(a) == [n |-> -a.n, d |-> a.d]

Minus(a, b) == IF IsNaN(a) \/ IsNaN(b) THEN NaN ELSE Plus(a, Negative(b))

Times(a, b) ==
  IF IsNaN(a) \/ IsNaN(b) THEN NaN
  ELSE LET g1 == GCD(Abs(a.n), b.d)
           g2 == GCD(Abs(b.n), a.d)
       IN  Num((a.n \div g1) * (b.n \div g2), (a.d \div g2) * (b.d \div g1))

\* a / b.  0/0 is NaN.  x/0 with x # 0 (an Infinity) has no case here: it is
\* evaluated nowhere in the program (l2 <= l1 + l2, velocity + 1 >= 1, and
\* i / drawSteps is taken only when drawSteps >= 1).
Over(a, b) ==
  CASE IsNaN(a) \/ IsNaN(b) -> NaN
    [] ~IsNaN(a) /\ ~IsNaN(b) /\ b.n = 0 /\ a.n = 0 -> NaN
    [] ~IsNaN(a) /\ ~IsNaN(b) /\ b.n # 0 ->
         Times(a, IF b.n < 0 THEN [n |-> -b.d, d |-> -b.n]
                             ELSE [n |-> b.d, d |-> b.n])

\* Comparisons with NaN are false, as in IEEE 754.
Less(a, b) == ~IsNaN(a) /\ ~IsNaN(b) /\ Minus(a, b).n < 0

LessEq(a, b) == ~IsNaN(a) /\ ~IsNaN(b) /\ Minus(a, b).n <= 0

\* Math.max
MathMax(a, b) ==
  IF IsNaN(a) \/ IsNaN(b) THEN NaN ELSE IF Less(a, b) THEN b ELSE a

\* Math.floor
MathFloor(a) == IF IsNaN(a) THEN NaN ELSE Whole(a.n \div a.d)

\* Math.sqrt, exact: the argument is a perfect square wherever it is taken.
ISqrt(k) == CHOOSE r \in 0..k : r * r = k

MathSqrt(a) == IF IsNaN(a) THEN NaN ELSE [n |-> ISqrt(a.n), d |-> ISqrt(a.d)]

Sq(a) == Times(a, a)

Two == Whole(2)

Zero == Whole(0)

One == Whole(1)

\* ----------------------------------------------------------- configuration
\* defaultProps.  dotSize is a function of (minWidth, maxWidth) or a number.
DotSizePolicies ==
  { [kind |-> "function", body |-> "average"],
    [kind |-> "function", body |-> "weighted"],
    [kind |-> "number", value |-> Whole(4)] }

defaultProps ==
  [ velocityFilterWeight |-> Num(7, 10),
    minWidth |-> Num(1, 2),
    maxWidth |-> Num(5, 2),
    dotSize |-> [kind |-> "function", body |-> "average"],
    penColor |-> "black",
    backgroundColor |-> "rgba(0,0,0,0)" ]

\* A dotSize function applied to its two arguments.
\* "average" is the default; "weighted" is a caller's (a, b) => a + 2 * b.
ApplyDotSize(body, a, b) ==
  CASE body = "average" -> Over(Plus(a, b), Two)
    [] body = "weighted" -> Plus(a, Times(Two, b))

\* The canvas's bounding rectangle in client coordinates.
CanvasRect == [left |-> 10, top |-> 20]

\* Client coordinates the pointer visits: a triangle with sides 3, 4, 5.
ClientPositions == { <<10, 20>>, <<13, 20>>, <<10, 24>> }

\* --------------------------------------------------------- Point and Bezier
\* new Point(x, y): a coordinate stamped with the time of its creation.
Point(x, y, t) == [x |-> x, y |-> y, time |-> t]

\* Point.distanceTo
DistanceTo(a, b) ==
  MathSqrt(Plus(Sq(Minus(a.x, b.x)), Sq(Minus(a.y, b.y))))

\* Point.velocityFrom: distance / max(elapsed, 1).
VelocityFrom(p, start) ==
  Over(DistanceTo(p, start),
       MathMax(Whole(p.time - start.time), One))

\* new Bezier(startPoint, control1, control2, endPoint)
Bezier(s, c1, c2, e) ==
  [startPoint |-> s, control1 |-> c1, control2 |-> c2, endPoint |-> e]

HasNaN(p) == IsNaN(p.x) \/ IsNaN(p.y)

\* Bezier.length: an estimate of the path length that reads all four points
\* (a NaN coordinate makes it NaN); the chord from start to end otherwise.
BezierLength(curve) ==
  IF HasNaN(curve.startPoint) \/ HasNaN(curve.control1)
       \/ HasNaN(curve.control2) \/ HasNaN(curve.endPoint)
  THEN NaN
  ELSE DistanceTo(curve.endPoint, curve.startPoint)

\* -------------------------------------------------------------- controller
\* The operations below are functions from a component state st to the next
\* one.  st has the fields
\*   props            the component's props
\*   points           this.points, the sliding window
\*   lastVelocity, lastWidth, isEmpty, mouseButtonDown   the fields so named
\*   fillStyle        ctx.fillStyle
\*   path             the discs of the context's current path
\*   surface          the discs filled onto the canvas since it was last blank
\*   now              the clock
\*   effects          what the running handler has done so far, in order
Note(st, e) == [st EXCEPT !.effects = Append(@, e)]

_reset(st) ==
  Note([st EXCEPT !.points = <<>>,
                  !.lastVelocity = Zero,
                  !.lastWidth = Over(Plus(st.props.minWidth, st.props.maxWidth), Two),
                  !.fillStyle = st.props.penColor],
       [op |-> "reset", len |-> 0])

\* A mutant of clear: _isEmpty is left as it was.
clear_KeepsIsEmpty(st) ==
  _reset([st EXCEPT !.fillStyle = st.props.backgroundColor, !.surface = {}])

\* clearRect and fillRect over the whole canvas leave it blank.
clear(st) ==
  LET filled == [st EXCEPT !.fillStyle = st.props.backgroundColor,
                           !.surface = {}]
  IN  [_reset(filled) EXCEPT !.isEmpty = TRUE]

_createPoint(st, ev) ==
  Point(Whole(ev.clientX - CanvasRect.left), Whole(ev.clientY - CanvasRect.top),
        st.now)

\* A mutant of _drawPoint: _isEmpty is left as it was.
_drawPoint_NoMark(st, x, y, size) ==
  Note([st EXCEPT !.path = @ \cup {[x |-> x, y |-> y, size |-> size]}],
       [op |-> "disc", x |-> x, y |-> y, size |-> size])

\* ctx.moveTo and ctx.arc add a disc to the current path (the canvas ignores
\* the call when an argument is NaN).
_drawPoint(st, x, y, size) ==
  LET arc == IF IsNaN(x) \/ IsNaN(y) \/ IsNaN(size)
             THEN st.path
             ELSE st.path \cup {[x |-> x, y |-> y, size |-> size]}
  IN  Note([st EXCEPT !.path = arc, !.isEmpty = FALSE],
           [op |-> "disc", x |-> x, y |-> y, size |-> size])

beginPath(st) == [st EXCEPT !.path = {}]

\* ctx.fill paints the current path in the current fill style.
fill(st) ==
  [st EXCEPT !.surface =
     @ \cup {[x |-> d.x, y |-> d.y, size |-> d.size, color |-> st.fillStyle] :
               d \in st.path}]

\* A mutant of _strokeWidth: the width grows with the velocity.
_strokeWidth_Rising(props, velocity) ==
  MathMax(Times(props.maxWidth, Plus(velocity, One)), props.minWidth)

\* A mutant of _strokeWidth: the width is not held at minWidth.
_strokeWidth_NoFloor(props, velocity) ==
  Over(props.maxWidth, Plus(velocity, One))

_strokeWidth(props, velocity) ==
  MathMax(Over(props.maxWidth, Plus(velocity, One)), props.minWidth)

\* x (or y) of the curve at t: the cubic in the powers of t and u = 1 - t
\* over the coordinates a, b, c, d of the curve's four points.
Cubic(a, b, c, d, t, tt, ttt, u, uu, uuu) ==
  Plus(Plus(Plus(Times(uuu, a),
                 Times(Times(Times(Whole(3), uu), t), b)),
            Times(Times(Times(Whole(3), u), tt), c)),
       Times(ttt, d))

\* The disc of one step of the loop: x, y and width, then _drawPoint.
DrawStepAt(st, curve, startWidth, widthDelta, t, tt, ttt, u, uu, uuu) ==
  _drawPoint(st,
             Cubic(curve.startPoint.x, curve.control1.x, curve.control2.x,
                   curve.endPoint.x, t, tt, ttt, u, uu, uuu),
             Cubic(curve.startPoint.y, curve.control1.y, curve.control2.y,
                   curve.endPoint.y, t, tt, ttt, u, uu, uuu),
             Plus(startWidth, Times(ttt, widthDelta)))

\* ttt = tt * t and uuu = uu * u
DrawStepCubes(st, curve, startWidth, widthDelta, t, tt, u, uu) ==
  DrawStepAt(st, curve, startWidth, widthDelta,
             t, tt, Times(tt, t), u, uu, Times(uu, u))

\* tt = t * t and uu = u * u
DrawStepSquares(st, curve, startWidth, widthDelta, t, u) ==
  DrawStepCubes(st, curve, startWidth, widthDelta, t, Times(t, t), u, Times(u, u))

\* One step of _drawCurve's loop at t = i / drawSteps, with u = 1 - t.
DrawStep(st, curve, startWidth, widthDelta, t) ==
  DrawStepSquares(st, curve, startWidth, widthDelta, t, Minus(One, t))

\* The body of _drawCurve's loop for i, i+1, ..., while i < drawSteps.
RECURSIVE DrawSteps(_, _, _, _, _, _)
DrawSteps(st, curve, startWidth, widthDelta, drawSteps, i) ==
  IF ~Less(Whole(i), drawSteps) THEN st
  ELSE DrawSteps(DrawStep(st, curve, startWidth, widthDelta,
                          Over(Whole(i), drawSteps)),
                 curve, startWidth, widthDelta, drawSteps, i + 1)

_drawCurve(st, curve, startWidth, endWidth) ==
  fill(DrawSteps(beginPath(st), curve, startWidth,
                 Minus(endWidth, startWidth),
                 MathFloor(BezierLength(curve)), 0))

\* A mutant of AddCurveDrawn: _lastWidth is not stored.
AddCurveDrawn_NoStore(st, curve, raw, velocity, newWidth) ==
  [_drawCurve(Note(st, [op |-> "curve", curve |-> curve, raw |-> raw,
                        startWidth |-> st.lastWidth, endWidth |-> newWidth]),
              curve, st.lastWidth, newWidth)
     EXCEPT !.lastVelocity = velocity]

\* The end of _addCurve: the curve is drawn from _lastWidth to newWidth, then
\* _lastVelocity and _lastWidth are stored.
AddCurveDrawn(st, curve, raw, velocity, newWidth) ==
  [_drawCurve(Note(st, [op |-> "curve", curve |-> curve, raw |-> raw,
                        startWidth |-> st.lastWidth, endWidth |-> newWidth]),
              curve, st.lastWidth, newWidth)
     EXCEPT !.lastVelocity = velocity, !.lastWidth = newWidth]

\* newWidth = this._strokeWidth(velocity)
AddCurveWidth(st, curve, raw, velocity) ==
  AddCurveDrawn(st, curve, raw, velocity, _strokeWidth(st.props, velocity))

\* weight * velocity + (1 - weight) * this._lastVelocity
FilteredVelocity(props, raw, lastVelocity) ==
  Plus(Times(props.velocityFilterWeight, raw),
       Times(Minus(One, props.velocityFilterWeight), lastVelocity))

\* velocity = the filtered velocity
AddCurveVelocity(st, curve, raw) ==
  AddCurveWidth(st, curve, raw,
                FilteredVelocity(st.props, raw, st.lastVelocity))

_addCurve(st, curve) ==
  AddCurveVelocity(st, curve, VelocityFrom(curve.endPoint, curve.startPoint))

\* The midpoint m of two points.
Midpoint(a, b) ==
  [x |-> Over(Plus(a.x, b.x), Two), y |-> Over(Plus(a.y, b.y), Two)]

\* Math.sqrt(dx * dx + dy * dy)
Hypot(dx, dy) == MathSqrt(Plus(Times(dx, dx), Times(dy, dy)))

\* The two control points: m1 and m2 moved by (tx, ty).
ControlPointsMoved(m1, m2, tx, ty, t) ==
  [c1 |-> Point(Plus(m1.x, tx), Plus(m1.y, ty), t),
   c2 |-> Point(Plus(m2.x, tx), Plus(m2.y, ty), t)]

\* A mutant of ControlPointsAbout: cm is laid off from m1 instead of m2.
ControlPointsAbout_FromM1(s2, m1, m2, k, t) ==
  ControlPointsMoved(m1, m2,
                     Minus(s2.x, Plus(m1.x, Times(Minus(m1.x, m2.x), k))),
                     Minus(s2.y, Plus(m1.y, Times(Minus(m1.y, m2.y), k))),
                     t)

\* cm = m2 + (m1 - m2) * k, and tx = s2.x - cm.x, ty = s2.y - cm.y
ControlPointsAbout(s2, m1, m2, k, t) ==
  ControlPointsMoved(m1, m2,
                     Minus(s2.x, Plus(m2.x, Times(Minus(m1.x, m2.x), k))),
                     Minus(s2.y, Plus(m2.y, Times(Minus(m1.y, m2.y), k))),
                     t)

\* k = l2 / (l1 + l2), unguarded
ControlPointsSplit(s2, m1, m2, l1, l2, t) ==
  ControlPointsAbout(s2, m1, m2, Over(l2, Plus(l1, l2)), t)

_calculateCurveControlPoints(s1, s2, s3, t) ==
  ControlPointsSplit(s2, Midpoint(s1, s2), Midpoint(s2, s3),
                     Hypot(Minus(s1.x, s2.x), Minus(s1.y, s2.y)),
                     Hypot(Minus(s2.x, s3.x), Minus(s2.y, s3.y)),
                     t)

\* A mutant of Unshifted: the first point is copied whenever a curve is due.
Unshifted_Always(st) ==
  IF Len(st.points) >= 3
  THEN Note([st EXCEPT !.points = <<st.points[1]>> \o @],
            [op |-> "unshift", len |-> Len(st.points) + 1])
  ELSE st

\* if (points.length === 3) points.unshift(points[0])
Unshifted(st) ==
  IF Len(st.points) = 3
  THEN Note([st EXCEPT !.points = <<st.points[1]>> \o @],
            [op |-> "unshift", len |-> Len(st.points) + 1])
  ELSE st

\* A mutant of CurveOf: the curve is laid one sample too far along the window.
CurveOf_OneAhead(points, t) ==
  LET c2 == _calculateCurveControlPoints(points[1], points[2], points[3], t).c2
      c3 == _calculateCurveControlPoints(points[2], points[3], points[4], t).c1
  IN  Bezier(points[3], c2, c3, points[4])

\* The curve _addPoint fits to a window of four points.
CurveOf(points, t) ==
  LET c2 == _calculateCurveControlPoints(points[1], points[2], points[3], t).c2
      c3 == _calculateCurveControlPoints(points[2], points[3], points[4], t).c1
  IN  Bezier(points[2], c2, c3, points[3])

\* this.points.push(point)
Pushed(st, point) ==
  Note([st EXCEPT !.points = Append(@, point)],
       [op |-> "push", len |-> Len(st.points) + 1, point |-> point])

\* A mutant of Shifted: the first point is not removed.
Shifted_Keeps(st) ==
  Note(st, [op |-> "shift", len |-> Len(st.points)])

\* this.points.shift()
Shifted(st) ==
  Note([st EXCEPT !.points = Tail(@)],
       [op |-> "shift", len |-> Len(st.points) - 1])

\* The branch of _addPoint taken when points.length > 2.
AddPointCurve(st, t) == Shifted(_addCurve(st, CurveOf(st.points, t)))

_addPoint(st, point) ==
  IF Len(st.points) + 1 > 2
  THEN AddPointCurve(Unshifted(Pushed(st, point)), st.now)
  ELSE Pushed(st, point)

_strokeUpdate(st, ev) == _addPoint(st, _createPoint(st, ev))

\* A mutant of _strokeBegin: the window and the filter are not reset.
_strokeBegin_NoReset(st, ev) ==
  Note(_strokeUpdate(st, ev), [op |-> "onBegin", ev |-> ev])

_strokeBegin(st, ev) ==
  Note(_strokeUpdate(_reset(st), ev), [op |-> "onBegin", ev |-> ev])

\* A mutant of _strokeDraw: the dot takes the filter's last width.
_strokeDraw_LastWidth(st, point) ==
  fill(_drawPoint(beginPath(st), point.x, point.y, st.lastWidth))

_strokeDraw(st, point) ==
  LET dotSize == IF st.props.dotSize.kind = "function"
                 THEN ApplyDotSize(st.props.dotSize.body,
                                   st.props.minWidth, st.props.maxWidth)
                 ELSE st.props.dotSize.value
  IN  fill(_drawPoint(beginPath(st), point.x, point.y, dotSize))

\* A mutant of _strokeEnd: two points already count as a curve.
_strokeEnd_TwoPoints(st, ev) ==
  LET canDrawCurve == Len(st.points) > 1
      drawn == IF ~canDrawCurve /\ Len(st.points) > 0
               THEN _strokeDraw(st, st.points[1])
               ELSE st
  IN  Note(drawn, [op |-> "onEnd", ev |-> ev])

\* A mutant of _strokeEnd: the end event is first handled as an update.
_strokeEnd_FinalUpdate(st, ev) ==
  LET updated == _strokeUpdate(st, ev)
      canDrawCurve == Len(updated.points) > 2
      drawn == IF ~canDrawCurve /\ Len(updated.points) > 0
               THEN _strokeDraw(updated, updated.points[1])
               ELSE updated
  IN  Note(drawn, [op |-> "onEnd", ev |-> ev])

_strokeEnd(st, ev) ==
  LET canDrawCurve == Len(st.points) > 2
      drawn == IF ~canDrawCurve /\ Len(st.points) > 0
               THEN _strokeDraw(st, st.points[1])
               ELSE st
  IN  Note(drawn, [op |-> "onEnd", ev |-> ev])

_handleMouseDown(st, ev) ==
  IF ev.which = 1
  THEN _strokeBegin([st EXCEPT !.mouseButtonDown = TRUE], ev)
  ELSE st

_handleMouseMove(st, ev) ==
  IF st.mouseButtonDown THEN _strokeUpdate(st, ev) ELSE st

\* A mutant of _handleMouseUp: the button flag is not consulted.
_handleMouseUp_Ungated(st, ev) ==
  IF ev.which = 1
  THEN _strokeEnd([st EXCEPT !.mouseButtonDown = FALSE], ev)
  ELSE st

_handleMouseUp(st, ev) ==
  IF ev.which = 1 /\ st.mouseButtonDown
  THEN _strokeEnd([st EXCEPT !.mouseButtonDown = FALSE], ev)
  ELSE st

\* ev.changedTouches[0] carries the coordinates of a touch event.
_handleTouchStart(st, ev) == _strokeBegin(st, ev)

_handleTouchMove(st, ev) == _strokeUpdate(st, ev)

_handleTouchEnd(st, ev) ==
  IF ev.target = "canvas" THEN _strokeEnd(st, ev) ELSE st

\* ------------------------------------------------------------------- state
VARIABLES
  props, points, lastVelocity, lastWidth, isEmpty, mouseButtonDown,
  fillStyle, path, surface,
  now,        \* the clock
  touches,    \* fingers resting on the canvas
  effects,    \* what the last handler that did anything did, in order
  log,        \* the onBegin/onEnd notifications since mounting, in order
  fed,        \* the samples pushed since the last _reset
  emitted,    \* the curves emitted since the last _reset
  cleared,    \* clear() was called and no stroke has begun since
  nSamples    \* samples pushed since mounting

vars ==
  << props, points, lastVelocity, lastWidth, isEmpty, mouseButtonDown,
     fillStyle, path, surface, now, touches, effects, log, fed,
     emitted, cleared, nSamples >>

\* The component as a record, with an empty effect trace for the next handler.
Cur ==
  [ props |-> props, points |-> points, lastVelocity |-> lastVelocity,
    lastWidth |-> lastWidth, isEmpty |-> isEmpty,
    mouseButtonDown |-> mouseButtonDown, fillStyle |-> fillStyle,
    path |-> path, surface |-> surface, now |-> now, effects |-> <<>> ]

Ops(effs, op) == SelectSeq(effs, LAMBDA e : e.op = op)

Notifications(effs) ==
  LET n == SelectSeq(effs, LAMBDA e : e.op \in {"onBegin", "onEnd"})
  IN  [i \in 1..Len(n) |-> n[i].op]

\* The samples pushed and the curves emitted since the last _reset.
RECURSIVE Since(_, _)
Since(acc, effs) ==
  IF effs = <<>> THEN acc
  ELSE LET e == Head(effs)
           a == CASE e.op = "reset" -> [fed |-> <<>>, emitted |-> <<>>]
                  [] e.op = "push" -> [acc EXCEPT !.fed = Append(@, e.point)]
                  [] e.op = "curve" -> [acc EXCEPT !.emitted = Append(@, e)]
                  [] OTHER -> acc
       IN  Since(a, Tail(effs))

\* The component becomes st when a handler returns.
Becomes(st) ==
  /\ props' = st.props
  /\ points' = st.points
  /\ lastVelocity' = st.lastVelocity
  /\ lastWidth' = st.lastWidth
  /\ isEmpty' = st.isEmpty
  /\ mouseButtonDown' = st.mouseButtonDown
  /\ fillStyle' = st.fillStyle
  /\ path' = st.path
  /\ surface' = st.surface
  /\ effects' = IF st.effects = <<>> THEN effects ELSE st.effects
  /\ log' = log \o Notifications(st.effects)
  /\ LET s == Since([fed |-> fed, emitted |-> emitted], st.effects)
     IN  fed' = s.fed /\ emitted' = s.emitted
  /\ cleared' = IF Ops(st.effects, "onBegin") # <<>> THEN FALSE
                ELSE IF Ops(st.effects, "push") = <<>>
                        /\ Ops(st.effects, "reset") # <<>> THEN TRUE
                ELSE cleared
  /\ nSamples' = nSamples + Len(Ops(st.effects, "push"))

Event(type, which, pos, target) ==
  [type |-> type, which |-> which, clientX |-> pos[1], clientY |-> pos[2],
   target |-> target]

\* The component once componentDidMount has returned (it ends with clear()).
Mounted(p) ==
  /\ props = p
  /\ points = <<>>
  /\ lastVelocity = Zero
  /\ lastWidth = Over(Plus(props.minWidth, props.maxWidth), Two)
  /\ isEmpty = TRUE
  /\ mouseButtonDown = FALSE
  /\ fillStyle = props.penColor
  /\ path = {}
  /\ surface = {}
  /\ now = 0
  /\ touches = 0
  /\ effects = <<>>
  /\ log = <<>>
  /\ fed = <<>>
  /\ emitted = <<>>
  /\ cleared = TRUE
  /\ nSamples = 0

Init ==
  \E p \in {[defaultProps EXCEPT !.dotSize = d] : d \in DotSizePolicies} :
    Mounted(p)

\* A component given a filter weight of 1/2 and a minWidth of 1: the widths of
\* a long stroke then keep denominators that fit a machine integer.
InitPen ==
  Mounted([defaultProps EXCEPT !.velocityFilterWeight = Num(1, 2),
                               !.minWidth = One])

\* Each action takes the number of samples the run may push in all.
MouseDown(limit) ==
  \E which \in {1, 2}, pos \in ClientPositions :
    /\ Becomes(_handleMouseDown(Cur, Event("mousedown", which, pos, "canvas")))
    /\ nSamples' <= limit
    /\ UNCHANGED << now, touches >>

MouseMove(limit) ==
  \E pos \in ClientPositions :
    /\ Becomes(_handleMouseMove(Cur, Event("mousemove", 0, pos, "canvas")))
    /\ nSamples' <= limit
    /\ UNCHANGED << now, touches >>

MouseUp ==
  \E which \in {1, 2}, pos \in ClientPositions :
    /\ Becomes(_handleMouseUp(Cur, Event("mouseup", which, pos, "document")))
    /\ UNCHANGED << now, touches >>

TouchStart(limit) ==
  \E pos \in ClientPositions :
    /\ touches < MaxTouches
    /\ touches' = touches + 1
    /\ Becomes(_handleTouchStart(Cur, Event("touchstart", 0, pos, "canvas")))
    /\ nSamples' <= limit
    /\ UNCHANGED now

TouchMove(limit) ==
  \E pos \in ClientPositions :
    /\ touches > 0
    /\ Becomes(_handleTouchMove(Cur, Event("touchmove", 0, pos, "canvas")))
    /\ nSamples' <= limit
    /\ UNCHANGED << now, touches >>

\* A finger that went down on the canvas is lifted.
TouchEnd ==
  \E pos \in ClientPositions :
    /\ touches > 0
    /\ touches' = touches - 1
    /\ Becomes(_handleTouchEnd(Cur, Event("touchend", 0, pos, "canvas")))
    /\ UNCHANGED now

\* A finger that went down outside the canvas is lifted.
TouchEndElsewhere ==
  \E pos \in ClientPositions :
    /\ Becomes(_handleTouchEnd(Cur, Event("touchend", 0, pos, "document")))
    /\ UNCHANGED << now, touches >>

Clear ==
  /\ Becomes(clear(Cur))
  /\ UNCHANGED << now, touches >>

Tick(limit) ==
  /\ now < limit
  /\ now' = now + 1
  /\ UNCHANGED << props, points, lastVelocity, lastWidth, isEmpty,
                  mouseButtonDown, fillStyle, path, surface, touches, effects,
                  log, fed, emitted, cleared, nSamples >>

\* Mouse and touch events, clear() and the clock, in any order.
Next ==
  \/ MouseDown(MaxSamples)
  \/ MouseMove(MaxSamples)
  \/ MouseUp
  \/ TouchStart(MaxSamples)
  \/ TouchMove(MaxSamples)
  \/ TouchEnd
  \/ TouchEndElsewhere
  \/ Clear
  \/ Tick(MaxTime)

Spec == Init /\ [][Next]_vars

\* The mouse alone, pressed once: one longer stroke.
NextMouse ==
  \/ (log = <<>> /\ MouseDown(MaxStrokeSamples))
  \/ MouseMove(MaxStrokeSamples)
  \/ MouseUp
  \/ Clear
  \/ Tick(MaxStrokeTime)

SpecMouse == InitPen /\ [][NextMouse]_vars

\* Strokes begun one after another, by the mouse or by a finger, each long
\* enough to emit curves before the next begins.
NextStrokes ==
  \/ MouseDown(MaxStrokeSamples)
  \/ MouseMove(MaxStrokeSamples)
  \/ MouseUp
  \/ TouchStart(MaxStrokeSamples)
  \/ Tick(MaxTime)

SpecStrokes == InitPen /\ [][NextStrokes]_vars

\* The solver alone.  The steps from one sample to the next: their lengths
\* are whole numbers, so that Math.sqrt is exact.
SampleSteps ==
  { <<0, 0>>, <<1, 0>>, <<0, 1>>, <<-1, 0>>, <<0, -2>>, <<3, 4>>, <<-4, 3>> }

SampleAt(x, y) == Point(Whole(x), Whole(y), 0)

\* A mounted component whose window holds three samples s1, s2, s3.
InitSolve ==
  \E x \in 0..MaxCoordinate, y \in 0..MaxCoordinate,
     d \in SampleSteps, e \in SampleSteps :
    /\ props = defaultProps
    /\ points = << SampleAt(x, y), SampleAt(x + d[1], y + d[2]),
                   SampleAt(x + d[1] + e[1], y + d[2] + e[2]) >>
    /\ lastVelocity = Zero
    /\ lastWidth = Over(Plus(props.minWidth, props.maxWidth), Two)
    /\ isEmpty = TRUE
    /\ mouseButtonDown = FALSE
    /\ fillStyle = props.penColor
    /\ path = {}
    /\ surface = {}
    /\ now = 0
    /\ touches = 0
    /\ effects = <<>>
    /\ log = <<>>
    /\ fed = points
    /\ emitted = <<>>
    /\ cleared = FALSE
    /\ nSamples = 3

\* tmp = this._calculateCurveControlPoints(points[0], points[1], points[2])
Solve ==
  /\ effects = <<>>
  /\ effects' = << [op |-> "solved",
                    tmp |-> _calculateCurveControlPoints(points[1], points[2],
                                                         points[3], now)] >>
  /\ UNCHANGED << props, points, lastVelocity, lastWidth, isEmpty,
                  mouseButtonDown, fillStyle, path, surface, now, touches,
                  log, fed, emitted, cleared, nSamples >>

SpecSolve == InitSolve /\ [][Solve]_vars

\* ------------------------------------------------------------------ claims
\* The last handler that did anything ended a stroke (_strokeEnd ran) ...
Ended == Ops(effects, "onEnd") # <<>>

\* ... or was clear().
JustCleared == Len(effects) = 1 /\ effects[1].op = "reset"

Discs(effs) == Ops(effs, "disc")

\* The position of the first effect of the given kind (0 when there is none).
FirstOp(effs, op) ==
  IF Ops(effs, op) = <<>> THEN 0
  ELSE CHOOSE i \in 1..Len(effs) :
         effs[i].op = op /\ \A j \in 1..(i - 1) : effs[j].op # op

\* C1: a stroke begin(s1), at most one update, end, with no clear() in
\* between, emits no curve; its end paints exactly one disc, centred at s1,
\* and isEmpty() is false afterwards.
C1_ShortStrokeDot ==
  (Ended /\ ~cleared /\ Len(fed) \in {1, 2}) =>
    /\ emitted = <<>>
    /\ Ops(effects, "curve") = <<>>
    /\ Len(Discs(effects)) = 1
    /\ Discs(effects)[1].x = fed[1].x
    /\ Discs(effects)[1].y = fed[1].y
    /\ \E d \in surface : d.x = fed[1].x /\ d.y = fed[1].y
    /\ ~isEmpty

C1_Witness == Ended /\ ~cleared /\ Len(fed) = 2 /\ fed[1] # fed[2]

\* C2: from any reachable state clear() leads to an empty component whose
\* surface and stroke state are those of a freshly mounted one, and a second
\* clear() changes nothing more.
C2_ClearIdempotent ==
  LET c == clear(Cur)
      again == clear([c EXCEPT !.effects = <<>>])
  IN  /\ c.isEmpty /\ c.surface = {} /\ c.points = <<>>
      /\ c.lastVelocity = Zero
      /\ c.lastWidth = Over(Plus(props.minWidth, props.maxWidth), Two)
      /\ c.fillStyle = props.penColor
      /\ again = c
      /\ JustCleared => (isEmpty /\ surface = {} /\ points = <<>>)

C2_Witness ==
  JustCleared /\ log = <<"onBegin", "onEnd">> /\ mouseButtonDown = FALSE

\* C3: isEmpty() is true exactly when no disc has been painted on the
\* surface since the last clear().
C3_EmptyIffBlank == isEmpty <=> surface = {}

C3_Witness == ~isEmpty /\ surface # {} /\ Ops(effects, "curve") # <<>>

\* C4: the sliding window never holds more than 4 samples, neither when a
\* handler has returned nor at any point inside _addPoint.
C4_WindowBound ==
  /\ Len(points) <= 4
  /\ \A i \in 1..Len(effects) :
       effects[i].op \in {"reset", "push", "unshift", "shift"} =>
         effects[i].len <= 4

C4_Witness ==
  /\ \E i \in 1..Len(effects) : effects[i].op = "push" /\ effects[i].len = 4
  /\ Len(fed) >= 4

\* C5: with minWidth <= maxWidth, a filter weight in [0, 1] and raw velocities
\* >= 0, lastWidth and the start width, the end width and every disc width of
\* every curve lie in [minWidth, maxWidth].
InRange(w) == LessEq(props.minWidth, w) /\ LessEq(w, props.maxWidth)

C5_WidthsInRange ==
  ( /\ LessEq(props.minWidth, props.maxWidth)
    /\ LessEq(Zero, props.velocityFilterWeight)
    /\ LessEq(props.velocityFilterWeight, One)
    /\ \A i \in 1..Len(emitted) : LessEq(Zero, emitted[i].raw) ) =>
    /\ InRange(lastWidth)
    /\ \A i \in 1..Len(emitted) :
         InRange(emitted[i].startWidth) /\ InRange(emitted[i].endWidth)
    /\ Ops(effects, "curve") # <<>> =>
         \A i \in 1..Len(Discs(effects)) : InRange(Discs(effects)[i].size)

C5_Witness ==
  /\ Len(emitted) >= 2
  /\ Less(props.minWidth, emitted[1].endWidth)
  /\ Less(emitted[1].endWidth, props.maxWidth)
  /\ emitted[2].endWidth = props.minWidth
  /\ Len(Discs(effects)) >= 2

\* C6: onBegin and onEnd strictly alternate, starting with onBegin.
C6_Alternate ==
  \A i \in 1..Len(log) : log[i] = IF i % 2 = 1 THEN "onBegin" ELSE "onEnd"

\* C7: from clear() until the next begin no sample is appended to the window
\* and nothing is painted.
C7_IdleAfterClear == cleared => (points = <<>> /\ surface = {})

C9_CurvePerSample ==
  ~cleared =>
    /\ Len(emitted) = IF Len(fed) < 3 THEN 0 ELSE Len(fed) - 2
    /\ \A j \in 1..Len(emitted) :
         /\ emitted[j].curve.startPoint = fed[j]
         /\ emitted[j].curve.endPoint = fed[j + 1]

C9_Witness ==
  ~cleared /\ Len(emitted) = 2 /\ fed[1] # fed[2] /\ fed[2] # fed[3]

\* C10: no curve handed to the rasterizer has a NaN control point.
C10_NoNaNControl ==
  \A i \in 1..Len(emitted) :
    ~HasNaN(emitted[i].curve.control1) /\ ~HasNaN(emitted[i].curve.control2)

\* C11: a handler that emitted a curve (and so called _drawCurve) leaves
\* isEmpty() false, whatever the length of the curve.
C11_CurveMarksNonEmpty == Ops(effects, "curve") # <<>> => ~isEmpty

\* The width _drawCurve interpolates at step i of drawSteps.
WidthAt(c, i, drawSteps) ==
  LET t == Over(Whole(i), drawSteps)
  IN  Plus(c.startWidth,
           Times(Times(Times(t, t), t), Minus(c.endWidth, c.startWidth)))

\* C12: the disc stamped at step i of a curve has radius width / 2, where
\* width = startWidth + t^3 * (endWidth - startWidth) and t = i / steps.
C12_DiscRadiusHalfWidth ==
  Ops(effects, "curve") # <<>> =>
    LET c == Ops(effects, "curve")[1]
        drawSteps == MathFloor(BezierLength(c.curve))
    IN  \A i \in 1..Len(Discs(effects)) :
          Discs(effects)[i].size = Over(WidthAt(c, i - 1, drawSteps), Two)

\* The size the dotSize policy of the props gives.
PolicyDotSize ==
  IF props.dotSize.kind = "function"
  THEN ApplyDotSize(props.dotSize.body, props.minWidth, props.maxWidth)
  ELSE props.dotSize.value

\* C13: the fallback dot painted by an end has the size the dotSize policy
\* gives: the function's result for (minWidth, maxWidth), unclamped, or the
\* constant; never a size taken from lastVelocity or lastWidth.
C13_DotSizePolicy ==
  (Ended /\ Discs(effects) # <<>>) =>
    /\ Len(Discs(effects)) = 1
    /\ Discs(effects)[1].size = PolicyDotSize
    /\ \E d \in surface : d.size = PolicyDotSize

C13_Witness ==
  /\ Ended /\ Len(Discs(effects)) = 1
  /\ props.dotSize.kind = "function"
  /\ Less(props.maxWidth, Discs(effects)[1].size)
  /\ Discs(effects)[1].size # lastWidth

\* The widths _addCurve computes for a stroke whose curves have the given raw
\* velocities, from a filter state whose velocity is last.
RECURSIVE WidthsFor(_, _, _)
WidthsFor(p, raws, last) ==
  IF raws = <<>> THEN <<>>
  ELSE LET velocity == FilteredVelocity(p, Head(raws), last)
       IN  <<_strokeWidth(p, velocity)>> \o WidthsFor(p, Tail(raws), velocity)

\* The raw velocities of the curves emitted since the last _reset (run A).
RawsA == [i \in 1..Len(emitted) |-> emitted[i].raw]

\* The raw velocities of the same curves when curve i takes dts[i] ticks.
RawsB(dts) ==
  [i \in 1..Len(emitted) |->
     VelocityFrom([emitted[i].curve.endPoint EXCEPT
                     !.time = emitted[i].curve.startPoint.time + dts[i]],
                  emitted[i].curve.startPoint)]

Retimings == [1..Len(emitted) -> 0..MaxStrokeTime]

Faster(dts) == \A i \in 1..Len(emitted) : LessEq(RawsA[i], RawsB(dts)[i])

\* C14: the widths of the emitted curves are those of WidthsFor, and a run of
\* the same stroke whose curves all have a raw velocity at least as high gets
\* a width no greater for every curve.
C14_VelocityMonotone ==
  /\ \A i \in 1..Len(emitted) :
       emitted[i].endWidth = WidthsFor(props, RawsA, Zero)[i]
  /\ \A dts \in Retimings :
       Faster(dts) =>
         \A i \in 1..Len(emitted) :
           LessEq(WidthsFor(props, RawsB(dts), Zero)[i], emitted[i].endWidth)

C14_Witness ==
  /\ Len(emitted) >= 2
  /\ \E dts \in Retimings :
       /\ Faster(dts)
       /\ Less(RawsA[1], RawsB(dts)[1])
       /\ Less(WidthsFor(props, RawsB(dts), Zero)[1], emitted[1].endWidth)
  /\ \E dts \in Retimings : ~Faster(dts)

Solved == effects # <<>> /\ effects[1].op = "solved"

\* s2 is the midpoint of s1 and s3, and s1 # s3.
EvenlySpaced(s1, s2, s3) ==
  /\ Plus(s1.x, s3.x) = Times(Two, s2.x)
  /\ Plus(s1.y, s3.y) = Times(Two, s2.y)
  /\ (s1.x # s3.x \/ s1.y # s3.y)

\* c lies on the line through a and b.
OnLine(c, a, b) ==
  Times(Minus(c.x, a.x), Minus(b.y, a.y))
    = Times(Minus(c.y, a.y), Minus(b.x, a.x))

\* C15: for colinear, evenly spaced samples s1, s2, s3 the solver returns
\* c1 = midpoint(s1, s2) and c2 = midpoint(s2, s3), both on the line through
\* the samples.
C15_ControlPointSymmetry ==
  (Solved /\ EvenlySpaced(points[1], points[2], points[3])) =>
    LET tmp == effects[1].tmp
    IN  /\ tmp.c1.x = Over(Plus(points[1].x, points[2].x), Two)
        /\ tmp.c1.y = Over(Plus(points[1].y, points[2].y), Two)
        /\ tmp.c2.x = Over(Plus(points[2].x, points[3].x), Two)
        /\ tmp.c2.y = Over(Plus(points[2].y, points[3].y), Two)
        /\ OnLine(tmp.c1, points[1], points[3])
        /\ OnLine(tmp.c2, points[1], points[3])

C15_Witness ==
  /\ Solved /\ EvenlySpaced(points[1], points[2], points[3])
  /\ points[1].x # points[2].x /\ points[1].y # points[2].y
  /\ effects[1].tmp.c1 # effects[1].tmp.c2

\* The kinds of the effects of a handler, in order.
Kinds(effs) == [i \in 1..Len(effs) |-> effs[i].op]

\* The step is a begin: one onBegin is added to the notifications.
Begins == Len(log') = Len(log) + 1 /\ log'[Len(log')] = "onBegin"

\* C16: a begin, from whatever state, leaves the window equal to [sample],
\* lastVelocity 0 and lastWidth (minWidth + maxWidth) / 2; it emits no curve
\* and paints nothing, and it calls onBegin after the reset and the append.
C16_BeginResets ==
  [][ Begins =>
        /\ Kinds(effects') = <<"reset", "push", "onBegin">>
        /\ Len(points') = 1
        /\ points'[1].x = Whole(effects'[3].ev.clientX - CanvasRect.left)
        /\ points'[1].y = Whole(effects'[3].ev.clientY - CanvasRect.top)
        /\ points'[1] = effects'[2].point
        /\ lastVelocity' = Zero
        /\ lastWidth' = Over(Plus(props.minWidth, props.maxWidth), Two)
        /\ emitted' = <<>>
        /\ surface' = surface /\ isEmpty' = isEmpty /\ path' = path
    ]_vars

C16_Witness ==
  /\ Kinds(effects) = <<"reset", "push", "onBegin">>
  /\ Len(log) >= 2
  /\ Cardinality(surface) >= 3
  /\ lastVelocity = Zero /\ Len(points) = 1

\* The filtered velocity after curves with the given raw velocities.
RECURSIVE VelocityAfter(_, _, _)
VelocityAfter(p, raws, last) ==
  IF raws = <<>> THEN last
  ELSE VelocityAfter(p, Tail(raws), FilteredVelocity(p, Head(raws), last))

\* The width a stroke starts with.
ResetWidth == Over(Plus(props.minWidth, props.maxWidth), Two)

\* C17: the first curve since a reset is drawn from (minWidth + maxWidth) / 2
\* and every later one from the end width of the curve before it; the filter
\* state is (filtered velocity, end width) of the last curve emitted, and the
\* reset state while none has been.
C17_WidthContinuity ==
  /\ emitted # <<>> => emitted[1].startWidth = ResetWidth
  /\ \A i \in 2..Len(emitted) :
       emitted[i].startWidth = emitted[i - 1].endWidth
  /\ lastWidth = IF emitted = <<>> THEN ResetWidth
                 ELSE emitted[Len(emitted)].endWidth
  /\ lastVelocity = VelocityAfter(props, RawsA, Zero)
  /\ (Ops(effects, "curve") # <<>> /\ Discs(effects) # <<>>) =>
       Discs(effects)[1].size = Ops(effects, "curve")[1].startWidth

C17_Witness ==
  /\ Len(emitted) = 2
  /\ emitted[1].endWidth # emitted[1].startWidth
  /\ emitted[2].endWidth # emitted[2].startWidth
  /\ Len(Discs(effects)) >= 2
  /\ lastVelocity # Zero

\* The mouse events a handler may be given.
MouseEvents(type, buttons) ==
  { Event(type, which, pos, "canvas") :
      which \in buttons, pos \in ClientPositions }

\* C18: while _mouseButtonDown is false, a mousemove, a mouseup of any
\* button and a mousedown of a non-primary button change nothing and notify
\* nobody; a non-primary button does nothing at any time; and a primary
\* mouseup that ends a stroke clears the flag, calls onEnd once, and leaves a
\* second mouseup nothing to end.
C18_MouseGated ==
  /\ ~mouseButtonDown =>
       /\ \A ev \in MouseEvents("mousemove", {0}) : _handleMouseMove(Cur, ev) = Cur
       /\ \A ev \in MouseEvents("mouseup", {1, 2}) : _handleMouseUp(Cur, ev) = Cur
  /\ \A ev \in MouseEvents("mousedown", {2}) : _handleMouseDown(Cur, ev) = Cur
  /\ \A ev \in MouseEvents("mouseup", {2}) : _handleMouseUp(Cur, ev) = Cur
  /\ mouseButtonDown =>
       \A ev \in MouseEvents("mouseup", {1}) :
         LET up == _handleMouseUp(Cur, ev)
         IN  /\ ~up.mouseButtonDown
             /\ Len(Ops(up.effects, "onEnd")) = 1
             /\ \A again \in MouseEvents("mouseup", {1, 2}) :
                  _handleMouseUp([up EXCEPT !.effects = <<>>], again).effects
                    = <<>>
  /\ (Ended /\ effects[Len(effects)].ev.type = "mouseup") => ~mouseButtonDown

C18_Witness ==
  /\ Ended /\ effects[Len(effects)].ev.type = "mouseup"
  /\ ~mouseButtonDown /\ points # <<>> /\ surface # {}
  /\ log = <<"onBegin", "onEnd">>

\* C19: once a handler has returned the window holds at most 3 samples, and
\* exactly 3 if and only if a curve has been emitted since the last _reset;
\* so an end paints the fallback dot exactly when the window is not empty and
\* no curve has been emitted since the last _reset.
C19_WindowThreeIffCurve ==
  /\ Len(points) \in 0..3
  /\ Len(points) = 3 <=> emitted # <<>>
  /\ Ended =>
       Len(Discs(effects)) = IF points # <<>> /\ emitted = <<>> THEN 1 ELSE 0

C19_Witness ==
  /\ Ended /\ emitted # <<>> /\ Discs(effects) = <<>> /\ Len(points) = 3
  /\ surface # {}

====
